---- MODULE Spec2Model ----
(***************************************************************************)
(* CredentialSet (src/src/core/crypto/CredentialSet.cpp): one master       *)
(* credential plus a std::map of child credentials keyed by ID string.     *)
(* The model follows one CredentialSet object from its construction on.    *)
(* Credential IDs are numbers; 0 stands for the empty string, and the      *)
(* order of the numbers is the order of the std::map.                      *)
(***************************************************************************)
EXTENDS Integers, Sequences, FiniteSets, TLC

\* ------------------------------------------------------------------ bounds
\* longest child list of a serialized CredentialSet handed to the constructor
MaxListLen == 2

\* ------------------------------------------------------- credential values
MASTERKEY == "MASTERKEY"
CHILDKEY == "CHILDKEY"
CONTACT == "CONTACT"
VERIFY == "VERIFY"
\* proto::CREDROLE_ERROR: "no particular role expected"
CREDROLE_ERROR == "ERROR"

\* the null Credential pointer
NoCred ==
    [id |-> 0, masterid |-> 0, role |-> CREDROLE_ERROR, sigok |-> FALSE,
     priv |-> FALSE, data |-> "", wf |-> FALSE]

\* ID of the master credential every sample credential is issued under
MasterId == 1
\* ID of a master that is not part of the set
ForeignMasterId == 9

\* Credential::Create<MasterCredential>: the master generated for a new Nym
NewMasterCredential ==
    [id |-> MasterId, masterid |-> MasterId, role |-> MASTERKEY,
     sigok |-> TRUE, priv |-> TRUE, data |-> "", wf |-> TRUE]

\* Credential::Create<ChildKeyCredential>: the first child key credential
NewChildKeyCredential(masterid) ==
    [id |-> 2, masterid |-> masterid, role |-> CHILDKEY,
     sigok |-> TRUE, priv |-> TRUE, data |-> "", wf |-> TRUE]

ContactDatas == {"a", "b"}
VerificationSets == {"v"}

\* Credential::Create<ContactCredential>; the ID is derived from the content
NewContactCredential(masterid, contactData) ==
    [id |-> IF contactData = "a" THEN 4 ELSE 5, masterid |-> masterid,
     role |-> CONTACT, sigok |-> TRUE, priv |-> FALSE,
     data |-> contactData, wf |-> TRUE]

\* Credential::Create<VerificationCredential>
NewVerificationCredential(masterid, verificationSet) ==
    [id |-> 6, masterid |-> masterid, role |-> VERIFY, sigok |-> TRUE,
     priv |-> FALSE, data |-> verificationSet, wf |-> TRUE]

\* a master whose self-signature does not verify, public part only
BadMaster ==
    [NewMasterCredential EXCEPT !.sigok = FALSE, !.priv = FALSE]

\* a public child key credential issued under another master
ForeignChild ==
    [id |-> 3, masterid |-> ForeignMasterId, role |-> CHILDKEY,
     sigok |-> TRUE, priv |-> FALSE, data |-> "", wf |-> TRUE]

\* the well-formed serialized credentials a caller or the storage can supply
WellFormed ==
    {NewMasterCredential, BadMaster, NewChildKeyCredential(MasterId),
     ForeignChild}
    \cup {NewContactCredential(MasterId, d) : d \in ContactDatas}
    \cup {NewVerificationCredential(MasterId, v) : v \in VerificationSets}

\* ... and the same with a schema violation (proto::Check fails)
Malformed ==
    {[c EXCEPT !.wf = FALSE] :
        c \in {NewMasterCredential, NewChildKeyCredential(MasterId)}}

Protos == WellFormed \cup Malformed

IDs == {c.id : c \in Protos}

\* ------------------------------------------------------------------- state
VARIABLES
    constructed,             \* a CredentialSet object is in the caller's hands
    m_strNymID,              \* 0 = empty string
    m_MasterCredential,      \* NoCred = null
    m_mapCredentials,        \* std::map<std::string, Credential*>
    m_mapRevokedCredentials, \* std::map<std::string, Credential*>
    m_pImportPassword,       \* "null" or the password installed
    db,                      \* App::Me().DB(): ID -> stored credential
    last                     \* the last call: operation, inputs, results

vars ==
    <<constructed, m_strNymID, m_MasterCredential, m_mapCredentials,
      m_mapRevokedCredentials, m_pImportPassword, db, last>>

NymId == 7
EmptyMap == [k \in {} |-> NoCred]

\* ----------------------------------------------------- std::map, std::list
\* std::map::insert: an existing key keeps its value
MapInsert(map, k, v) ==
    IF k \in DOMAIN map THEN map
    ELSE [x \in DOMAIN map \cup {k} |-> IF x = k THEN v ELSE map[x]]

\* std::map::erase(key) / erase(iterator)
MapErase(map, k) == [x \in DOMAIN map \ {k} |-> map[x]]

\* the keys of a std::map in iteration order
RECURSIVE KeySeq(_)
KeySeq(S) ==
    IF S = {} THEN << >>
    ELSE LET m == CHOOSE x \in S : \A y \in S : x <= y
         IN  <<m>> \o KeySeq(S \ {m})

\* the (key, value) pairs of a std::map in iteration order
Entries(map) ==
    LET ks == KeySeq(DOMAIN map)
    IN  [i \in 1..Len(ks) |-> [first |-> ks[i], second |-> map[ks[i]]]]

SeqsUpTo(S, n) == UNION {[1..k -> S] : k \in 0..n}

\* ------------------------------------------- Credential (collaborator API)
\* proto::Check<proto::Credential>(serialized, 0, 0xFFFFFFFF, role, true)
ProtoCheck(serialized, role) ==
    /\ serialized.wf
    /\ role # CREDROLE_ERROR => serialized.role = role

\* Credential::CredentialFactory(owner, serialized, purportedRole):
\* nullptr unless the serialized form passes the check for that role
CredentialFactory(serialized, purportedRole) ==
    IF ProtoCheck(serialized, purportedRole) THEN serialized ELSE NoCred

\* dynamic_cast<MasterCredential*>(credential)
AsMasterCredential(cred) ==
    IF cred.role = MASTERKEY THEN cred ELSE NoCred

\* Credential::Validate() / Credential::VerifyInternally() of a credential
\* owned by a set whose master ID is masterId
Validate(cred, masterId) ==
    /\ cred.sigok
    /\ cred.role # MASTERKEY => cred.masterid = masterId

\* ----------------------------------------------------------- CredentialSet
GetMasterCredID(master) ==
    IF master # NoCred THEN master.id ELSE 0

\* SetSource(source): m_strNymID = nym_id_source_->NymID(); the constructors
\* of MasterCredential hand the source they hold to their owner
SetSource(source) == source

GetChildCredentialCount(map) == Cardinality(DOMAIN map)

\* Load_Master(strNymID, strMasterCredID): [ret, master]
Load_Master(store, strMasterCredID) ==
    IF strMasterCredID \notin DOMAIN store
    THEN [ret |-> FALSE, master |-> NoCred]
    ELSE LET purported ==
                 CredentialFactory(store[strMasterCredID], MASTERKEY)
             master == AsMasterCredential(purported)
         IN  [ret |-> master # NoCred, master |-> master]

\* LoadChildKeyCredential(const proto::Credential&): [ret, map]
LoadChildKeyCredential(map, serializedCred) ==
    IF ~ProtoCheck(serializedCred, CREDROLE_ERROR)
    THEN [ret |-> FALSE, map |-> map]
    ELSE IF serializedCred.role = MASTERKEY
    THEN [ret |-> FALSE, map |-> map]
    ELSE [ret |-> TRUE,
          map |-> MapInsert(MapErase(map, serializedCred.id),
                            serializedCred.id,
                            CredentialFactory(serializedCred,
                                              CREDROLE_ERROR))]

\* LoadChildKeyCredential(const String& strSubID): [ret, map]
LoadChildKeyCredentialByID(store, map, strSubID) ==
    IF strSubID \notin DOMAIN store
    THEN [ret |-> FALSE, map |-> map]
    ELSE LoadChildKeyCredential(map, store[strSubID])

\* the loop of the constructor over activechildids / activechildren
RECURSIVE LoadChildrenByID(_, _, _)
LoadChildrenByID(store, map, ids) ==
    IF ids = << >> THEN map
    ELSE LoadChildrenByID(
             store, LoadChildKeyCredentialByID(store, map, Head(ids)).map,
             Tail(ids))

RECURSIVE LoadChildren(_, _)
LoadChildren(map, children) ==
    IF children = << >> THEN map
    ELSE LoadChildren(LoadChildKeyCredential(map, Head(children)).map,
                      Tail(children))

\* the storage the model starts from: credentials 1 to 4 are stored,
\* 5 is stored with a schema violation, 6 is not stored
InitialDB ==
    [i \in {1, 2, 3, 4, 5} |->
        CASE i = 1 -> NewMasterCredential
          [] i = 2 -> NewChildKeyCredential(MasterId)
          [] i = 3 -> ForeignChild
          [] i = 4 -> NewContactCredential(MasterId, "a")
          [] i = 5 -> [NewContactCredential(MasterId, "b") EXCEPT
                          !.wf = FALSE]]

NoCall == [op |-> "none", ret |-> FALSE, in |-> << >>, out |-> << >>]

Init ==
    /\ constructed = FALSE
    /\ m_strNymID = 0
    /\ m_MasterCredential = NoCred
    /\ m_mapCredentials = EmptyMap
    /\ m_mapRevokedCredentials = EmptyMap
    /\ m_pImportPassword = "null"
    /\ db = InitialDB
    /\ last = NoCall

\* ------------------------------------------------------------ construction
\* CredentialSet(const NymParameters&, const OTPasswordData*)
Create ==
    /\ ~constructed
    /\ constructed' = TRUE
    /\ m_MasterCredential' = NewMasterCredential
    /\ m_mapCredentials' =
           LET childCred == NewChildKeyCredential(NewMasterCredential.id)
           IN  MapInsert(m_mapCredentials, childCred.id, childCred)
    /\ m_strNymID' = SetSource(NymId)
    /\ last' = [op |-> "Create", ret |-> TRUE, in |-> << >>, out |-> << >>]
    /\ UNCHANGED <<m_mapRevokedCredentials, m_pImportPassword, db>>

\* CredentialSet(const proto::CredentialSet&), mode CREDSETMODE_INDEX
LoadIndexed ==
    /\ ~constructed
    /\ \E masterid \in IDs, activechildids \in SeqsUpTo(IDs, MaxListLen) :
        /\ constructed' = TRUE
        /\ m_strNymID' = NymId
        /\ m_MasterCredential' = Load_Master(db, masterid).master
        /\ m_mapCredentials' =
               LoadChildrenByID(db, m_mapCredentials, activechildids)
        /\ last' = [op |-> "LoadIndexed", ret |-> TRUE,
                    in |-> <<masterid, activechildids>>, out |-> << >>]
    /\ UNCHANGED <<m_mapRevokedCredentials, m_pImportPassword, db>>

\* CredentialSet(const proto::CredentialSet&), mode CREDSETMODE_FULL
LoadFull ==
    /\ ~constructed
    /\ \E mastercredential \in Protos,
          activechildren \in SeqsUpTo(Protos, MaxListLen) :
        /\ constructed' = TRUE
        /\ m_strNymID' = NymId
        /\ m_MasterCredential' =
               AsMasterCredential(
                   CredentialFactory(mastercredential, CREDROLE_ERROR))
        /\ m_mapCredentials' = LoadChildren(m_mapCredentials, activechildren)
        /\ last' = [op |-> "LoadFull", ret |-> TRUE,
                    in |-> <<mastercredential, activechildren>>,
                    out |-> << >>]
    /\ UNCHANGED <<m_mapRevokedCredentials, m_pImportPassword, db>>

\* static CredentialSet::LoadMaster(strNymID, strMasterCredID, pPWData)
LoadMaster ==
    /\ ~constructed
    /\ \E strMasterCredID \in IDs :
        LET r == Load_Master(db, strMasterCredID)
        IN  /\ constructed' = r.ret
            /\ m_MasterCredential' = IF r.ret THEN r.master ELSE NoCred
            /\ m_strNymID' = IF r.ret THEN SetSource(NymId) ELSE m_strNymID
            /\ last' = [op |-> "LoadMaster", ret |-> r.ret,
                        in |-> <<strMasterCredID>>, out |-> << >>]
    /\ UNCHANGED <<m_mapCredentials, m_mapRevokedCredentials,
                   m_pImportPassword, db>>

\* static CredentialSet::LoadMasterFromString(strInput, strNymID,
\* strMasterCredID, pPWData, pImportPassword) around Load_MasterFromString;
\* strInput is an armored credential, NoCred when it does not parse
LoadMasterFromString ==
    /\ ~constructed
    /\ \E strInput \in Protos \cup {NoCred},
          pImportPassword \in {"null", "pw"} :
        LET serializedCred == strInput
            purported ==
                IF serializedCred = NoCred THEN NoCred
                ELSE CredentialFactory(serializedCred, MASTERKEY)
            master == AsMasterCredential(purported)
            bLoaded == master # NoCred
        IN  /\ constructed' = bLoaded
            /\ m_strNymID' = IF bLoaded THEN NymId ELSE 0
            /\ m_MasterCredential' = master
            /\ m_pImportPassword' = "null"
            /\ m_mapCredentials' = EmptyMap
            /\ last' = [op |-> "LoadMasterFromString", ret |-> bLoaded,
                        in |-> <<strInput, pImportPassword>>, out |-> << >>]
    /\ UNCHANGED <<m_mapRevokedCredentials, db>>

\* ------------------------------------------------------- loading children
\* LoadChildKeyCredential(const String& strSubID), called on a live set;
\* OT_ASSERT(GetNymID().Exists()) is the guard on m_strNymID
CallLoadChildKeyCredentialByID ==
    /\ constructed
    /\ m_strNymID # 0
    /\ \E strSubID \in IDs :
        LET r == LoadChildKeyCredentialByID(db, m_mapCredentials, strSubID)
        IN  /\ m_mapCredentials' = r.map
            /\ last' = [op |-> "LoadChildKeyCredentialByID", ret |-> r.ret,
                        in |-> <<strSubID>>, out |-> << >>]
    /\ UNCHANGED <<constructed, m_strNymID, m_MasterCredential,
                   m_mapRevokedCredentials, m_pImportPassword, db>>

\* LoadChildKeyCredential(const proto::Credential&), called on a live set
CallLoadChildKeyCredential ==
    /\ constructed
    /\ \E serializedCred \in Protos :
        LET r == LoadChildKeyCredential(m_mapCredentials, serializedCred)
        IN  /\ m_mapCredentials' = r.map
            /\ last' = [op |-> "LoadChildKeyCredential", ret |-> r.ret,
                        in |-> <<serializedCred>>, out |-> << >>]
    /\ UNCHANGED <<constructed, m_strNymID, m_MasterCredential,
                   m_mapRevokedCredentials, m_pImportPassword, db>>

\* LoadChildKeyCredentialFromString(strInput, strSubID, pImportPassword):
\* [ret, map, pw]
LoadChildKeyCredentialFromString(master, map, strInput, strSubID, pImportPassword) ==
    LET erased == IF strSubID \in DOMAIN map THEN MapErase(map, strSubID)
                  ELSE map
        pSub == CredentialFactory(strInput, CREDROLE_ERROR)
    IN  IF ~Validate(pSub, GetMasterCredID(master))
        THEN [ret |-> FALSE, map |-> erased, pw |-> pImportPassword]
        ELSE [ret |-> TRUE, map |-> MapInsert(erased, strSubID, pSub),
              pw |-> "null"]

\* the sub-IDs a caller passes along with an armored credential
SubIDs(cred) == {cred.id, MasterId}

\* the call; OT_ASSERT(nullptr != pSub) is the guard on strInput
CallLoadChildKeyCredentialFromString ==
    /\ constructed
    /\ \E strInput \in WellFormed, pImportPassword \in {"null", "pw"} :
       \E strSubID \in SubIDs(strInput) :
        LET r == LoadChildKeyCredentialFromString(
                     m_MasterCredential, m_mapCredentials, strInput,
                     strSubID, pImportPassword)
        IN  /\ m_mapCredentials' = r.map
            /\ m_pImportPassword' = r.pw
            /\ last' = [op |-> "LoadChildKeyCredentialFromString",
                        ret |-> r.ret,
                        in |-> <<strInput.id, strSubID>>,
                        out |-> << >>]
    /\ UNCHANGED <<constructed, m_strNymID, m_MasterCredential,
                   m_mapRevokedCredentials, db>>

\* ------------------------------------------------------------ verification
\* the children loop of VerifyInternally over entries[i..]: the keys whose
\* credential was asked to Validate, and whether all of them passed
RECURSIVE ValidateChildren(_, _, _)
ValidateChildren(entries, i, masterId) ==
    IF i > Len(entries) THEN [ret |-> TRUE, asked |-> << >>]
    ELSE IF ~Validate(entries[i].second, masterId)
    THEN [ret |-> FALSE, asked |-> <<entries[i].first>>]
    ELSE LET rest == ValidateChildren(entries, i + 1, masterId)
         IN  [ret |-> rest.ret,
              asked |-> <<entries[i].first>> \o rest.asked]

\* VerifyInternally(): [ret, asked]; asked lists the credentials validated,
\* the master (written 0) first, then child keys in map order
\* (variant that trusts the master without validating it)
VerifyInternallyChildrenOnly(master, map) ==
    IF master = NoCred THEN [ret |-> FALSE, asked |-> << >>]
    ELSE LET r == ValidateChildren(Entries(map), 1,
                                   GetMasterCredID(master))
         IN  [ret |-> r.ret, asked |-> <<0>> \o r.asked]
VerifyInternally(master, map) ==
    IF master = NoCred THEN [ret |-> FALSE, asked |-> << >>]
    ELSE IF ~Validate(master, GetMasterCredID(master))
    THEN [ret |-> FALSE, asked |-> <<0>>]
    ELSE LET r == ValidateChildren(Entries(map), 1,
                                   GetMasterCredID(master))
         IN  [ret |-> r.ret, asked |-> <<0>> \o r.asked]

CallVerifyInternally ==
    /\ constructed
    /\ LET r == VerifyInternally(m_MasterCredential, m_mapCredentials)
       IN  last' = [op |-> "VerifyInternally", ret |-> r.ret,
                    in |-> << >>, out |-> r.asked]
    /\ UNCHANGED <<constructed, m_strNymID, m_MasterCredential,
                   m_mapCredentials, m_mapRevokedCredentials,
                   m_pImportPassword, db>>

\* GetChildCredential(strSubID, plistRevokedIDs); a null list is the empty set
NullList == {}

\* (variant that returns the first child not on the list, whatever its ID)
RECURSIVE GetChildCredentialFromFirst(_, _, _, _)
GetChildCredentialFromFirst(entries, i, strSubID, plistRevokedIDs) ==
    IF i > Len(entries) THEN NoCred
    ELSE IF entries[i].first \in plistRevokedIDs
    THEN GetChildCredentialFromFirst(entries, i + 1, strSubID,
                                     plistRevokedIDs)
    ELSE entries[i].second
RECURSIVE GetChildCredentialFrom(_, _, _, _)
GetChildCredentialFrom(entries, i, strSubID, plistRevokedIDs) ==
    IF i > Len(entries) THEN NoCred
    ELSE IF entries[i].first \in plistRevokedIDs
    THEN GetChildCredentialFrom(entries, i + 1, strSubID, plistRevokedIDs)
    ELSE IF strSubID = entries[i].first THEN entries[i].second
    ELSE GetChildCredentialFrom(entries, i + 1, strSubID, plistRevokedIDs)

GetChildCredential(map, strSubID, plistRevokedIDs) ==
    GetChildCredentialFrom(Entries(map), 1, strSubID, plistRevokedIDs)

\* proto::KeyRole: which key of the credential makes or checks a signature
KEYROLE_SIGN == "SIGN"
KEYROLE_AUTH == "AUTH"
KeyRoles == {KEYROLE_SIGN, KEYROLE_AUTH}

\* signatures: the credential ID they name, the credential whose key made
\* them, the payload they were made over and the key they were made with
Payloads == {"p", "q"}
\* the payloads handed to Sign and Verify
Plaintexts == {"p"}
\* the signatures a caller hands to Verify
Signatures ==
    [credentialid : {1, 2}, signer : {1, 2}, payload : Payloads,
     key : {KEYROLE_SIGN}]
\* the unset proto::Signature
NoSig == [credentialid |-> 0, signer |-> 0, payload |-> "", key |-> ""]

\* Credential::Verify(plaintext, sig, key) of one credential: the key pair
\* of that usage of a key credential checks the signature
CredentialVerify(cred, plaintext, sig, key) ==
    /\ cred.role \in {MASTERKEY, CHILDKEY}
    /\ key = sig.key
    /\ sig.signer = cred.id
    /\ sig.payload = plaintext

\* Credential::canSign(): a key credential that holds its private keys
canSign(cred) == cred.role \in {MASTERKEY, CHILDKEY} /\ cred.priv

\* Credential::Sign(plaintext, sig, pPWData, exportPassword, role, key):
\* [ret, sig]; signs tells whether the private key operation goes through
CredentialSign(cred, plaintext, role, key, signs) ==
    IF canSign(cred) /\ signs
    THEN [ret |-> TRUE,
          sig |-> [credentialid |-> cred.id, signer |-> cred.id,
                   payload |-> plaintext, key |-> key]]
    ELSE [ret |-> FALSE, sig |-> NoSig]

\* Verify(plaintext, sig, key)
\* (variant without the comparison against the master ID)
VerifyNoMasterCheck(master, map, plaintext, sig, key) ==
    LET credential == GetChildCredential(map, sig.credentialid, NullList)
    IN  IF credential = NoCred THEN FALSE
        ELSE CredentialVerify(credential, plaintext, sig, key)
Verify(master, map, plaintext, sig, key) ==
    LET signerID == sig.credentialid
    IN  IF signerID = GetMasterCredID(master) THEN FALSE
        ELSE LET credential == GetChildCredential(map, signerID, NullList)
             IN  IF credential = NoCred THEN FALSE
                 ELSE CredentialVerify(credential, plaintext, sig, key)

\* proto::SignatureRole; SIGROLE_ERROR is the default argument of Sign
SIGROLE_ERROR == "SIGROLE_ERROR"
SIGROLE_PUBCREDENTIAL == "SIGROLE_PUBCREDENTIAL"
SIGROLE_PRIVCREDENTIAL == "SIGROLE_PRIVCREDENTIAL"
SIGROLE_NYMIDSOURCE == "SIGROLE_NYMIDSOURCE"
SIGROLE_CLAIM == "SIGROLE_CLAIM"
SignatureRoles ==
    {SIGROLE_ERROR, SIGROLE_PUBCREDENTIAL, SIGROLE_PRIVCREDENTIAL,
     SIGROLE_NYMIDSOURCE, SIGROLE_CLAIM}

\* who was asked to sign: the master, a child (its map key) or nobody
ByMaster == 0
ByNobody == 0 - 1

\* the default branch of Sign over entries[i..]: the first child that can
\* sign is asked
RECURSIVE SignByFirstChild(_, _, _, _, _, _)
SignByFirstChild(entries, i, plaintext, role, key, signs) ==
    IF i > Len(entries)
    THEN [ret |-> FALSE, sig |-> NoSig, by |-> ByNobody, crashed |-> FALSE]
    ELSE IF canSign(entries[i].second)
    THEN LET r == CredentialSign(entries[i].second, plaintext, role, key,
                                 signs)
         IN  [ret |-> r.ret, sig |-> r.sig, by |-> entries[i].first,
              crashed |-> FALSE]
    ELSE SignByFirstChild(entries, i + 1, plaintext, role, key, signs)

\* Sign(plaintext, sig, pPWData, exportPassword, role, key): the set of
\* possible outcomes [ret, sig, by, crashed].  m_MasterCredential->Sign on a
\* null m_MasterCredential is undefined: the call crashes or returns either
\* value with no signature made.
Sign(master, map, plaintext, role, key, signs) ==
    CASE role = SIGROLE_PUBCREDENTIAL ->
            IF master = NoCred
            THEN {[ret |-> FALSE, sig |-> NoSig, by |-> ByNobody,
                   crashed |-> TRUE]}
                 \cup {[ret |-> b, sig |-> NoSig, by |-> ByNobody,
                         crashed |-> FALSE] : b \in BOOLEAN}
            ELSE LET r == CredentialSign(master, plaintext, role, key, signs)
                 IN  {[ret |-> r.ret, sig |-> r.sig, by |-> ByMaster,
                       crashed |-> FALSE]}
      [] role \in {SIGROLE_NYMIDSOURCE, SIGROLE_PRIVCREDENTIAL} ->
            {[ret |-> FALSE, sig |-> NoSig, by |-> ByNobody,
              crashed |-> FALSE]}
      [] OTHER ->
            {SignByFirstChild(Entries(map), 1, plaintext, role, key, signs)}

\* (variant that keeps the export password as the import password)
CallSignKeepingPassword ==
    /\ constructed
    /\ \E plaintext \in Plaintexts, role \in SignatureRoles,
          key \in KeyRoles, signs \in BOOLEAN :
       \E r \in Sign(m_MasterCredential, m_mapCredentials, plaintext, role,
                     key, signs) :
        last' = [op |-> "Sign", ret |-> r.ret,
                 in |-> <<plaintext, role, key, signs>>,
                 out |-> <<r.sig, r.by, r.crashed>>]
    /\ m_pImportPassword' = "pw"
    /\ UNCHANGED <<constructed, m_strNymID, m_MasterCredential,
                   m_mapCredentials, m_mapRevokedCredentials, db>>
CallSign ==
    /\ constructed
    /\ \E plaintext \in Plaintexts, role \in SignatureRoles,
          key \in KeyRoles, signs \in BOOLEAN :
       \E r \in Sign(m_MasterCredential, m_mapCredentials, plaintext, role,
                     key, signs) :
        last' = [op |-> "Sign", ret |-> r.ret,
                 in |-> <<plaintext, role, key, signs>>,
                 out |-> <<r.sig, r.by, r.crashed>>]
    /\ UNCHANGED <<constructed, m_strNymID, m_MasterCredential,
                   m_mapCredentials, m_mapRevokedCredentials,
                   m_pImportPassword, db>>

CallVerify ==
    /\ constructed
    /\ \E plaintext \in Plaintexts, sig \in Signatures, key \in KeyRoles :
        last' = [op |-> "Verify",
                 ret |-> Verify(m_MasterCredential, m_mapCredentials,
                                plaintext, sig, key),
                 in |-> <<plaintext, sig, key>>, out |-> << >>]
    /\ UNCHANGED <<constructed, m_strNymID, m_MasterCredential,
                   m_mapCredentials, m_mapRevokedCredentials,
                   m_pImportPassword, db>>

\* ------------------------------------------------------- adding, revoking
\* AddContactCredential(contactData): [ret, map]; created is what
\* Credential::Create<ContactCredential> returned, NoCred for nullptr
\* (variant without the test for a missing master)
AddCredentialNoMasterCheck(master, map, created) ==
    IF created = NoCred THEN [ret |-> FALSE, map |-> map]
    ELSE [ret |-> TRUE, map |-> MapInsert(map, created.id, created)]
AddCredential(master, map, created) ==
    IF master = NoCred THEN [ret |-> FALSE, map |-> map]
    ELSE IF created = NoCred THEN [ret |-> FALSE, map |-> map]
    ELSE [ret |-> TRUE, map |-> MapInsert(map, created.id, created)]

AddContactCredential ==
    /\ constructed
    /\ \E contactData \in ContactDatas, created \in BOOLEAN :
        LET newChildCredential ==
                IF created
                THEN NewContactCredential(
                         GetMasterCredID(m_MasterCredential), contactData)
                ELSE NoCred
            r == AddCredential(m_MasterCredential, m_mapCredentials,
                               newChildCredential)
        IN  /\ m_mapCredentials' = r.map
            /\ last' = [op |-> "AddContactCredential", ret |-> r.ret,
                        in |-> <<contactData, created>>, out |-> << >>]
    /\ UNCHANGED <<constructed, m_strNymID, m_MasterCredential,
                   m_mapRevokedCredentials, m_pImportPassword, db>>

AddVerificationCredential ==
    /\ constructed
    /\ \E verificationSet \in VerificationSets, created \in BOOLEAN :
        LET newChildCredential ==
                IF created
                THEN NewVerificationCredential(
                         GetMasterCredID(m_MasterCredential),
                         verificationSet)
                ELSE NoCred
            r == AddCredential(m_MasterCredential, m_mapCredentials,
                               newChildCredential)
        IN  /\ m_mapCredentials' = r.map
            /\ last' = [op |-> "AddVerificationCredential", ret |-> r.ret,
                        in |-> <<verificationSet, created>>, out |-> << >>]
    /\ UNCHANGED <<constructed, m_strNymID, m_MasterCredential,
                   m_mapRevokedCredentials, m_pImportPassword, db>>

\* the first loop of Revoke*Credentials: the own IDs of the children of the
\* role, in map order
\* (variant that collects the children of every role)
RECURSIVE IDsOfAnyRole(_, _, _)
IDsOfAnyRole(entries, i, role) ==
    IF i > Len(entries) THEN << >>
    ELSE <<entries[i].second.id>> \o IDsOfAnyRole(entries, i + 1, role)
RECURSIVE IDsOfRole(_, _, _)
IDsOfRole(entries, i, role) ==
    IF i > Len(entries) THEN << >>
    ELSE (IF entries[i].second.role = role
          THEN <<entries[i].second.id>> ELSE << >>)
         \o IDsOfRole(entries, i + 1, role)

\* the second loop: m_mapCredentials.erase(id) for each collected ID
RECURSIVE EraseAll(_, _)
EraseAll(map, credentialsToDelete) ==
    IF credentialsToDelete = << >> THEN map
    ELSE EraseAll(MapErase(map, Head(credentialsToDelete)),
                  Tail(credentialsToDelete))

\* RevokeContactCredentials / RevokeVerificationCredentials for a role:
\* [ids (the caller's list afterwards), map, revoked]
\* (variant that copies the children to the revoked map and leaves them
\* in the active map)
RevokeCredentialsKeep(map, revoked, role, credentialIDs) ==
    LET credentialsToDelete == IDsOfRole(Entries(map), 1, role)
    IN  [ids |-> credentialIDs \o credentialsToDelete,
         map |-> map,
         revoked |-> [k \in DOMAIN revoked \cup
                               {j \in DOMAIN map : map[j].role = role} |->
                         IF k \in DOMAIN map THEN map[k] ELSE revoked[k]]]
RevokeCredentials(map, revoked, role, credentialIDs) ==
    LET credentialsToDelete == IDsOfRole(Entries(map), 1, role)
    IN  [ids |-> credentialIDs \o credentialsToDelete,
         map |-> EraseAll(map, credentialsToDelete),
         revoked |-> revoked]

\* the lists a caller hands to Revoke*Credentials
CallerLists == {<< >>, <<6>>}

RevokeContactCredentials ==
    /\ constructed
    /\ \E contactCredentialIDs \in CallerLists :
        LET r == RevokeCredentials(m_mapCredentials,
                                   m_mapRevokedCredentials, CONTACT,
                                   contactCredentialIDs)
        IN  /\ m_mapCredentials' = r.map
            /\ m_mapRevokedCredentials' = r.revoked
            /\ last' = [op |-> "RevokeContactCredentials", ret |-> TRUE,
                        in |-> <<contactCredentialIDs>>, out |-> r.ids]
    /\ UNCHANGED <<constructed, m_strNymID, m_MasterCredential,
                   m_pImportPassword, db>>

RevokeVerificationCredentials ==
    /\ constructed
    /\ \E verificationCredentialIDs \in CallerLists :
        LET r == RevokeCredentials(m_mapCredentials,
                                   m_mapRevokedCredentials, VERIFY,
                                   verificationCredentialIDs)
        IN  /\ m_mapCredentials' = r.map
            /\ m_mapRevokedCredentials' = r.revoked
            /\ last' = [op |-> "RevokeVerificationCredentials",
                        ret |-> TRUE,
                        in |-> <<verificationCredentialIDs>>,
                        out |-> r.ids]
    /\ UNCHANGED <<constructed, m_strNymID, m_MasterCredential,
                   m_pImportPassword, db>>

\* ---------------------------------------------------------- re-encryption
\* Credential::Save(): the credential is stored under its own ID
DBSave(store, cred) ==
    [i \in DOMAIN store \cup {cred.id} |->
        IF i = cred.id THEN cred ELSE store[i]]

\* which call into a credential fails during one ReEncryptPrivateCredentials:
\* step "enc" (ReEncryptKeys), "sign" (SelfSign) or "save" (Save) of the
\* credential stored under key at (0 = the master), or none
Failures(map) ==
    {[step |-> "none", at |-> 0]} \cup
    [step : {"enc", "sign", "save"},
     at : {0} \cup {k \in DOMAIN map : map[k].role = CHILDKEY}]

Succeeds(failure, step, at) == ~(failure.step = step /\ failure.at = at)

\* the loop over m_mapCredentials from entries[i] on: [ret, log, store];
\* the log lists the calls made as <<step, key, result>>
\* (variant that goes on with the next child after a failure)
RECURSIVE ReEncryptChildrenNoAbort(_, _, _, _, _)
ReEncryptChildrenNoAbort(entries, i, bImporting, failure, store) ==
    IF i > Len(entries) THEN [ret |-> TRUE, log |-> << >>, store |-> store]
    ELSE
    LET key == entries[i].first
        pSub == entries[i].second
        bReEncrypt == Succeeds(failure, "enc", key)
        bSigned == bReEncrypt /\ bImporting /\ Succeeds(failure, "sign", key)
        saved == Succeeds(failure, "save", key)
        calls ==
            <<<<"enc", key, bReEncrypt>>>>
            \o (IF bReEncrypt /\ bImporting
                THEN <<<<"release", key, TRUE>>, <<"sign", key, bSigned>>>>
                ELSE << >>)
            \o (IF bReEncrypt /\ bImporting /\ bSigned
                THEN <<<<"save", key, saved>>>> ELSE << >>)
        after == IF bReEncrypt /\ bImporting /\ bSigned /\ saved
                 THEN DBSave(store, pSub) ELSE store
        rest == ReEncryptChildrenNoAbort(entries, i + 1, bImporting,
                                         failure, after)
    IN  IF pSub.role # CHILDKEY
        THEN ReEncryptChildrenNoAbort(entries, i + 1, bImporting, failure,
                                      store)
        ELSE [ret |-> rest.ret /\ bReEncrypt /\ (bImporting => bSigned),
              log |-> calls \o rest.log, store |-> rest.store]
RECURSIVE ReEncryptChildren(_, _, _, _, _)
ReEncryptChildren(entries, i, bImporting, failure, store) ==
    IF i > Len(entries) THEN [ret |-> TRUE, log |-> << >>, store |-> store]
    ELSE
    LET key == entries[i].first
        pSub == entries[i].second
        bReEncrypt == Succeeds(failure, "enc", key)
        bSigned == bReEncrypt /\ bImporting /\ Succeeds(failure, "sign", key)
        saved == Succeeds(failure, "save", key)
        calls ==
            <<<<"enc", key, bReEncrypt>>>>
            \o (IF bReEncrypt /\ bImporting
                THEN <<<<"release", key, TRUE>>, <<"sign", key, bSigned>>>>
                ELSE << >>)
            \o (IF bReEncrypt /\ bImporting /\ bSigned
                THEN <<<<"save", key, saved>>>> ELSE << >>)
        after == IF bReEncrypt /\ bImporting /\ bSigned /\ saved
                 THEN DBSave(store, pSub) ELSE store
    IN  IF pSub.role # CHILDKEY
        THEN ReEncryptChildren(entries, i + 1, bImporting, failure, store)
        ELSE IF ~bReEncrypt \/ (bImporting /\ ~bSigned)
        THEN [ret |-> FALSE, log |-> calls, store |-> after]
        ELSE LET rest == ReEncryptChildren(entries, i + 1, bImporting,
                                           failure, after)
             IN  [ret |-> rest.ret, log |-> calls \o rest.log,
                  store |-> rest.store]

\* ReEncryptPrivateCredentials(theExportPassword, bImporting):
\* [ret, log, store]
\* (variant without the test of hasPrivateData)
ReEncryptNoPrivateTest(master, map, store, bImporting, failure) ==
    LET bReEncryptMaster == Succeeds(failure, "enc", 0)
        bSignedMaster ==
            bReEncryptMaster /\ bImporting /\ Succeeds(failure, "sign", 0)
        saved == Succeeds(failure, "save", 0)
        calls ==
            <<<<"enc", 0, bReEncryptMaster>>>>
            \o (IF bReEncryptMaster /\ bImporting
                THEN <<<<"release", 0, TRUE>>, <<"sign", 0, bSignedMaster>>>>
                ELSE << >>)
    IN  IF ~bReEncryptMaster
        THEN [ret |-> FALSE, log |-> calls, store |-> store]
        ELSE IF bSignedMaster \/ ~bImporting
        THEN LET after == IF saved THEN DBSave(store, master) ELSE store
                 rest == ReEncryptChildren(Entries(map), 1, bImporting,
                                           failure, after)
             IN  [ret |-> rest.ret,
                  log |-> calls \o <<<<"save", 0, saved>>>> \o rest.log,
                  store |-> rest.store]
        ELSE [ret |-> FALSE, log |-> calls, store |-> store]
\* (variant that saves the master and goes on to the children although
\* re-signing the master failed)
ReEncryptPastMasterSign(master, map, store, bImporting, failure) ==
    IF ~master.priv THEN [ret |-> FALSE, log |-> << >>, store |-> store]
    ELSE
    LET bReEncryptMaster == Succeeds(failure, "enc", 0)
        bSignedMaster ==
            bReEncryptMaster /\ bImporting /\ Succeeds(failure, "sign", 0)
        saved == Succeeds(failure, "save", 0)
        calls ==
            <<<<"enc", 0, bReEncryptMaster>>>>
            \o (IF bReEncryptMaster /\ bImporting
                THEN <<<<"release", 0, TRUE>>, <<"sign", 0, bSignedMaster>>>>
                ELSE << >>)
    IN  IF ~bReEncryptMaster
        THEN [ret |-> FALSE, log |-> calls, store |-> store]
        ELSE LET after == IF saved THEN DBSave(store, master) ELSE store
                 rest == ReEncryptChildren(Entries(map), 1, bImporting,
                                           failure, after)
             IN  [ret |-> rest.ret /\ (bSignedMaster \/ ~bImporting),
                  log |-> calls \o <<<<"save", 0, saved>>>> \o rest.log,
                  store |-> rest.store]
ReEncryptPrivateCredentials(master, map, store, bImporting, failure) ==
    IF ~master.priv THEN [ret |-> FALSE, log |-> << >>, store |-> store]
    ELSE
    LET bReEncryptMaster == Succeeds(failure, "enc", 0)
        bSignedMaster ==
            bReEncryptMaster /\ bImporting /\ Succeeds(failure, "sign", 0)
        saved == Succeeds(failure, "save", 0)
        calls ==
            <<<<"enc", 0, bReEncryptMaster>>>>
            \o (IF bReEncryptMaster /\ bImporting
                THEN <<<<"release", 0, TRUE>>, <<"sign", 0, bSignedMaster>>>>
                ELSE << >>)
    IN  IF ~bReEncryptMaster
        THEN [ret |-> FALSE, log |-> calls, store |-> store]
        ELSE IF bSignedMaster \/ ~bImporting
        THEN LET after == IF saved THEN DBSave(store, master) ELSE store
                 rest == ReEncryptChildren(Entries(map), 1, bImporting,
                                           failure, after)
             IN  [ret |-> rest.ret,
                  log |-> calls \o <<<<"save", 0, saved>>>> \o rest.log,
                  store |-> rest.store]
        ELSE [ret |-> FALSE, log |-> calls, store |-> store]

\* the call; OT_ASSERT(m_MasterCredential) is the guard
CallReEncryptPrivateCredentials ==
    /\ constructed
    /\ m_MasterCredential # NoCred
    /\ \E bImporting \in BOOLEAN, failure \in Failures(m_mapCredentials) :
        LET r == ReEncryptPrivateCredentials(
                     m_MasterCredential, m_mapCredentials, db, bImporting,
                     failure)
        IN  /\ db' = r.store
            /\ last' = [op |-> "ReEncryptPrivateCredentials", ret |-> r.ret,
                        in |-> <<bImporting, failure>>, out |-> r.log]
    /\ UNCHANGED <<constructed, m_strNymID, m_MasterCredential,
                   m_mapCredentials, m_mapRevokedCredentials,
                   m_pImportPassword>>

\* -------------------------------------------------------- WriteCredentials
\* which Save fails during one WriteCredentials: that of the credential
\* stored under key at (0 = the master), or none
SaveFailures(map) ==
    {[step |-> "none", at |-> 0]} \cup
    [step : {"save"}, at : {0} \cup DOMAIN map]

\* the loop of WriteCredentials over entries[i..]: [ret, log, store]
RECURSIVE WriteChildren(_, _, _, _)
WriteChildren(entries, i, failure, store) ==
    IF i > Len(entries) THEN [ret |-> TRUE, log |-> << >>, store |-> store]
    ELSE LET key == entries[i].first
             saved == Succeeds(failure, "save", key)
         IN  IF ~saved
             THEN [ret |-> FALSE, log |-> <<<<"save", key, FALSE>>>>,
                   store |-> store]
             ELSE LET rest == WriteChildren(
                                  entries, i + 1, failure,
                                  DBSave(store, entries[i].second))
                  IN  [ret |-> rest.ret,
                       log |-> <<<<"save", key, TRUE>>>> \o rest.log,
                       store |-> rest.store]

\* WriteCredentials(): the set of possible outcomes [ret, log, store,
\* crashed].  m_MasterCredential->Save() on a null m_MasterCredential is
\* undefined: the call crashes or returns either value with nothing saved.
WriteCredentials(master, map, store, failure) ==
    IF master = NoCred
    THEN {[ret |-> FALSE, log |-> << >>, store |-> store, crashed |-> TRUE]}
         \cup {[ret |-> b, log |-> << >>, store |-> store,
                 crashed |-> FALSE] : b \in BOOLEAN}
    ELSE IF ~Succeeds(failure, "save", 0)
    THEN {[ret |-> FALSE, log |-> <<<<"save", 0, FALSE>>>>, store |-> store,
           crashed |-> FALSE]}
    ELSE LET rest == WriteChildren(Entries(map), 1, failure,
                                   DBSave(store, master))
         IN  {[ret |-> rest.ret, log |-> <<<<"save", 0, TRUE>>>> \o rest.log,
               store |-> rest.store, crashed |-> FALSE]}

CallWriteCredentials ==
    /\ constructed
    /\ \E failure \in SaveFailures(m_mapCredentials) :
       \E r \in WriteCredentials(m_MasterCredential, m_mapCredentials, db,
                                 failure) :
        /\ db' = r.store
        /\ last' = [op |-> "WriteCredentials", ret |-> r.ret,
                    in |-> <<failure>>, out |-> <<r.log, r.crashed>>]
    /\ UNCHANGED <<constructed, m_strNymID, m_MasterCredential,
                   m_mapCredentials, m_mapRevokedCredentials,
                   m_pImportPassword>>

\* --------------------------------------------------------------- Serialize
\* Credential::asSerialized(AS_PUBLIC, WITH_SIGNATURES): the serialized form
\* without the private keys
asSerializedPublic(cred) == [cred EXCEPT !.priv = FALSE]

\* CredentialIndexModeFlag
ONLY_IDS == "ONLY_IDS"
FULL_CREDS == "FULL_CREDS"
\* proto::CredentialSetMode
CREDSETMODE_INDEX == "CREDSETMODE_INDEX"
CREDSETMODE_FULL == "CREDSETMODE_FULL"

\* the serialized children of a map, in map order
SerializedChildren(map) ==
    LET es == Entries(map)
    IN  [i \in 1..Len(es) |-> asSerializedPublic(es[i].second)]

\* a proto::CredentialSet with no list and no credential set yet
NewCredSet(nymid, masterid, mode) ==
    [version |-> 1, nymid |-> nymid, masterid |-> masterid, mode |-> mode,
     activechildids |-> << >>, revokedchildids |-> << >>,
     mastercredential |-> NoCred, activechildren |-> << >>,
     revokedchildren |-> << >>, crashed |-> FALSE]

\* Serialize(mode): the set of possible outcomes, a proto::CredentialSet
\* each.  m_MasterCredential->asSerialized on a null m_MasterCredential is
\* undefined: the call crashes or returns a form without master credential.
\* (variant that serializes the credentials with their private keys)
SerializeAsPrivate(nymid, master, map, revoked, mode) ==
    IF mode = ONLY_IDS
    THEN {[NewCredSet(nymid, GetMasterCredID(master), CREDSETMODE_INDEX)
              EXCEPT !.activechildids = KeySeq(DOMAIN map),
                     !.revokedchildids = KeySeq(DOMAIN revoked)]}
    ELSE LET credSet == NewCredSet(nymid, GetMasterCredID(master),
                                   CREDSETMODE_FULL)
         IN  {[credSet EXCEPT
                  !.mastercredential = master,
                  !.activechildren =
                      [i \in 1..Len(Entries(map)) |->
                          Entries(map)[i].second],
                  !.revokedchildren =
                      [i \in 1..Len(Entries(revoked)) |->
                          Entries(revoked)[i].second]]}
Serialize(nymid, master, map, revoked, mode) ==
    IF mode = ONLY_IDS
    THEN {[NewCredSet(nymid, GetMasterCredID(master), CREDSETMODE_INDEX)
              EXCEPT !.activechildids = KeySeq(DOMAIN map),
                     !.revokedchildids = KeySeq(DOMAIN revoked)]}
    ELSE LET credSet == NewCredSet(nymid, GetMasterCredID(master),
                                   CREDSETMODE_FULL)
         IN  IF master = NoCred
             THEN {[credSet EXCEPT !.crashed = TRUE],
                   [credSet EXCEPT
                       !.activechildren = SerializedChildren(map),
                       !.revokedchildren = SerializedChildren(revoked)]}
             ELSE {[credSet EXCEPT
                       !.mastercredential = asSerializedPublic(master),
                       !.activechildren = SerializedChildren(map),
                       !.revokedchildren = SerializedChildren(revoked)]}

CallSerialize ==
    /\ constructed
    /\ \E mode \in {ONLY_IDS, FULL_CREDS} :
       \E credSet \in Serialize(m_strNymID, m_MasterCredential,
                                m_mapCredentials, m_mapRevokedCredentials,
                                mode) :
        last' = [op |-> "Serialize", ret |-> ~credSet.crashed,
                 in |-> <<mode>>, out |-> credSet]
    /\ UNCHANGED <<constructed, m_strNymID, m_MasterCredential,
                   m_mapCredentials, m_mapRevokedCredentials,
                   m_pImportPassword, db>>

\* CredentialSet(const proto::CredentialSet&) as a function of the
\* serialized form: the members of the set it builds
LoadedSet(store, credSet) ==
    IF credSet.mode = CREDSETMODE_INDEX
    THEN [nymid |-> credSet.nymid,
          master |-> Load_Master(store, credSet.masterid).master,
          map |-> LoadChildrenByID(store, EmptyMap, credSet.activechildids),
          revoked |-> EmptyMap]
    ELSE [nymid |-> credSet.nymid,
          master |-> AsMasterCredential(
                         CredentialFactory(credSet.mastercredential,
                                           CREDROLE_ERROR)),
          map |-> LoadChildren(EmptyMap, credSet.activechildren),
          revoked |-> EmptyMap]

\* ----------------------------------------------------------- key selection
KEYROLE_ENCRYPT == "ENCRYPT"
\* Auth, Encr, Sign: the three Get*Keypair functions
KeyUsages == {KEYROLE_AUTH, KEYROLE_ENCRYPT, KEYROLE_SIGN}

\* the lists of revoked IDs a caller hands in (NullList for nullptr)
RevokedLists == {NullList, {2}, {1, 2, 3}}

\* a key pair: the credential it belongs to, its usage, and where it was
\* found (a map key, ByMaster or ByNobody)
Keypair(cred, usage, by) ==
    [owner |-> cred.id, usage |-> usage, by |-> by, crashed |-> FALSE]

\* the loop of Get*Keypair over entries[i..]: the key of the first child key
\* credential that is not on the list, ByNobody when there is none
\* (variant that takes the last such child)
RECURSIVE FirstChildKeyLast(_, _, _)
FirstChildKeyLast(entries, i, plistRevokedIDs) ==
    IF i > Len(entries) THEN ByNobody
    ELSE LET later == FirstChildKeyLast(entries, i + 1, plistRevokedIDs)
         IN  IF later # ByNobody THEN later
             ELSE IF entries[i].second.role # CHILDKEY THEN ByNobody
             ELSE IF entries[i].first \in plistRevokedIDs THEN ByNobody
             ELSE entries[i].first
RECURSIVE FirstChildKey(_, _, _)
FirstChildKey(entries, i, plistRevokedIDs) ==
    IF i > Len(entries) THEN ByNobody
    ELSE IF entries[i].second.role # CHILDKEY
    THEN FirstChildKey(entries, i + 1, plistRevokedIDs)
    ELSE IF entries[i].first \in plistRevokedIDs
    THEN FirstChildKey(entries, i + 1, plistRevokedIDs)
    ELSE entries[i].first

\* GetAuthKeypair / GetEncrKeypair / GetSignKeypair(plistRevokedIDs): the
\* set of possible outcomes.  The fallback reads m_MasterCredential->m_*Key;
\* on a null m_MasterCredential that is undefined: the call crashes or
\* returns a reference to no key pair.
GetKeypair(master, map, usage, plistRevokedIDs) ==
    LET k == FirstChildKey(Entries(map), 1, plistRevokedIDs)
    IN  IF k # ByNobody THEN {Keypair(map[k], usage, k)}
        ELSE IF master = NoCred
        THEN {[Keypair(NoCred, usage, ByNobody) EXCEPT !.crashed = TRUE],
              Keypair(NoCred, usage, ByNobody)}
        ELSE {Keypair(master, usage, ByMaster)}

CallGetKeypair ==
    /\ constructed
    /\ \E usage \in KeyUsages, plistRevokedIDs \in RevokedLists :
       \E r \in GetKeypair(m_MasterCredential, m_mapCredentials, usage,
                           plistRevokedIDs) :
        last' = [op |-> "GetKeypair", ret |-> ~r.crashed,
                 in |-> <<usage, plistRevokedIDs>>, out |-> r]
    /\ UNCHANGED <<constructed, m_strNymID, m_MasterCredential,
                   m_mapCredentials, m_mapRevokedCredentials,
                   m_pImportPassword, db>>

\* ------------------------------------------------------------ child lookup
\* the IDs a caller looks up
LookupIDs == {1, 2, 4}

CallGetChildCredential ==
    /\ constructed
    /\ \E strSubID \in LookupIDs, plistRevokedIDs \in RevokedLists :
        LET pSub == GetChildCredential(m_mapCredentials, strSubID,
                                       plistRevokedIDs)
        IN  last' = [op |-> "GetChildCredential", ret |-> pSub # NoCred,
                     in |-> <<strSubID, plistRevokedIDs>>, out |-> pSub]
    /\ UNCHANGED <<constructed, m_strNymID, m_MasterCredential,
                   m_mapCredentials, m_mapRevokedCredentials,
                   m_pImportPassword, db>>

\* ------------------------------------- GetContactData, GetVerificationSet
\* the out-parameter as the caller hands it in
NoData == ""

\* the loop of GetContactData / GetVerificationSet over entries[i..] for a
\* role: [found, data].  fails holds the keys of the children whose getter
\* returns false; a getter that returns true has written the out-parameter.
\* (variant that keeps the first child that succeeded)
RECURSIVE GetRoleDataFirst(_, _, _, _, _, _)
GetRoleDataFirst(entries, i, role, fails, found, data) ==
    IF i > Len(entries) THEN [found |-> found, data |-> data]
    ELSE IF entries[i].second.role # role \/ found
    THEN GetRoleDataFirst(entries, i + 1, role, fails, found, data)
    ELSE IF entries[i].first \in fails
    THEN GetRoleDataFirst(entries, i + 1, role, fails, FALSE, data)
    ELSE GetRoleDataFirst(entries, i + 1, role, fails, TRUE,
                          entries[i].second.data)
RECURSIVE GetRoleData(_, _, _, _, _, _)
GetRoleData(entries, i, role, fails, found, data) ==
    IF i > Len(entries) THEN [found |-> found, data |-> data]
    ELSE IF entries[i].second.role # role
    THEN GetRoleData(entries, i + 1, role, fails, found, data)
    ELSE IF entries[i].first \in fails
    THEN GetRoleData(entries, i + 1, role, fails, FALSE, data)
    ELSE GetRoleData(entries, i + 1, role, fails, TRUE,
                     entries[i].second.data)

KeysOfRole(map, role) == {k \in DOMAIN map : map[k].role = role}

GetContactData ==
    /\ constructed
    /\ \E fails \in SUBSET KeysOfRole(m_mapCredentials, CONTACT) :
        LET r == GetRoleData(Entries(m_mapCredentials), 1, CONTACT, fails,
                             FALSE, NoData)
        IN  last' = [op |-> "GetContactData", ret |-> r.found,
                     in |-> <<fails>>, out |-> r.data]
    /\ UNCHANGED <<constructed, m_strNymID, m_MasterCredential,
                   m_mapCredentials, m_mapRevokedCredentials,
                   m_pImportPassword, db>>

GetVerificationSet ==
    /\ constructed
    /\ \E fails \in SUBSET KeysOfRole(m_mapCredentials, VERIFY) :
        LET r == GetRoleData(Entries(m_mapCredentials), 1, VERIFY, fails,
                             FALSE, NoData)
        IN  last' = [op |-> "GetVerificationSet", ret |-> r.found,
                     in |-> <<fails>>, out |-> r.data]
    /\ UNCHANGED <<constructed, m_strNymID, m_MasterCredential,
                   m_mapCredentials, m_mapRevokedCredentials,
                   m_pImportPassword, db>>

Next ==
    \/ Create
    \/ LoadIndexed
    \/ LoadFull
    \/ LoadMaster
    \/ LoadMasterFromString
    \/ CallLoadChildKeyCredentialByID
    \/ CallLoadChildKeyCredential
    \/ CallLoadChildKeyCredentialFromString
    \/ CallVerifyInternally
    \/ CallVerify
    \/ CallSign
    \/ AddContactCredential
    \/ AddVerificationCredential
    \/ RevokeContactCredentials
    \/ RevokeVerificationCredentials
    \/ CallReEncryptPrivateCredentials
    \/ CallWriteCredentials
    \/ CallSerialize
    \/ CallGetKeypair
    \/ CallGetChildCredential
    \/ GetContactData
    \/ GetVerificationSet

Spec == Init /\ [][Next]_vars

\* the operations that change the set: construction, loads, adds, revocations
Changes ==
    \/ Create
    \/ LoadIndexed
    \/ LoadFull
    \/ LoadMaster
    \/ LoadMasterFromString
    \/ CallLoadChildKeyCredentialByID
    \/ CallLoadChildKeyCredential
    \/ CallLoadChildKeyCredentialFromString
    \/ AddContactCredential
    \/ AddVerificationCredential
    \/ RevokeContactCredentials
    \/ RevokeVerificationCredentials

\* every set the operations build, without the calls that only query it
SpecChanges == Init /\ [][Changes]_vars

\* every set the operations build, and re-encryption of it
NextReEncrypt == Changes \/ CallReEncryptPrivateCredentials
SpecReEncrypt == Init /\ [][NextReEncrypt]_vars

\* every set the operations build, and one kind of query on it
NextVerify == Changes \/ CallVerify
SpecVerify == Init /\ [][NextVerify]_vars

NextVerifyInternally == Changes \/ CallVerifyInternally
SpecVerifyInternally == Init /\ [][NextVerifyInternally]_vars

NextSign == Changes \/ CallSign
SpecSign == Init /\ [][NextSign]_vars

NextWrite == Changes \/ CallWriteCredentials
SpecWrite == Init /\ [][NextWrite]_vars

NextSerialize ==
    Changes \/ CallReEncryptPrivateCredentials \/ CallSerialize
SpecSerialize == Init /\ [][NextSerialize]_vars

NextKeys == Changes \/ CallGetKeypair
SpecKeys == Init /\ [][NextKeys]_vars

NextLookup == Changes \/ CallGetChildCredential
SpecLookup == Init /\ [][NextLookup]_vars

\* the calls that only query the set
Queries ==
    \/ CallVerifyInternally
    \/ CallVerify
    \/ CallSign
    \/ CallWriteCredentials
    \/ CallSerialize
    \/ CallGetKeypair
    \/ CallGetChildCredential
    \/ GetContactData
    \/ GetVerificationSet

\* the sets that the constructors, a load of the master from a string and
\* the Add operations build, and every query on them
NextQueries ==
    \/ Create
    \/ LoadIndexed
    \/ LoadMasterFromString
    \/ AddContactCredential
    \/ AddVerificationCredential
    \/ Queries
SpecQueries == Init /\ [][NextQueries]_vars

NextData == Changes \/ GetContactData \/ GetVerificationSet
SpecData == Init /\ [][NextData]_vars

\* ================================================================== claims
RevokeOps == {"RevokeContactCredentials", "RevokeVerificationCredentials"}
AddOps == {"AddContactCredential", "AddVerificationCredential"}

\* C1: Verify returns false whenever the signature names the set's master
\* credential ID, whatever children, payload and key usage.
C1_VerifyRejectsMasterID ==
    (/\ last.op = "Verify"
     /\ last.in[2].credentialid = GetMasterCredID(m_MasterCredential))
    => last.ret = FALSE

\* the signature names the master ID while a child that accepts the very
\* signature is stored under that ID
C1_Witness ==
    /\ last.op = "Verify"
    /\ m_MasterCredential # NoCred
    /\ last.in[2].credentialid = GetMasterCredID(m_MasterCredential)
    /\ last.in[2].credentialid \in DOMAIN m_mapCredentials
    /\ CredentialVerify(m_mapCredentials[last.in[2].credentialid],
                        last.in[1], last.in[2], last.in[3])
    /\ last.ret = FALSE

\* C2: VerifyInternally returns true iff the master is present and validates
\* and every active child validates; otherwise it returns false, having
\* asked no credential after the first one that failed.
C2_VerifyInternallyIff ==
    last.op = "VerifyInternally" =>
        LET masterId == GetMasterCredID(m_MasterCredential)
            order == <<0>> \o KeySeq(DOMAIN m_mapCredentials)
            Passes(k) ==
                IF k = 0 THEN Validate(m_MasterCredential, masterId)
                ELSE Validate(m_mapCredentials[k], masterId)
            n == Len(last.out)
        IN  /\ last.ret <=>
                  /\ m_MasterCredential # NoCred
                  /\ Validate(m_MasterCredential, masterId)
                  /\ \A k \in DOMAIN m_mapCredentials :
                        Validate(m_mapCredentials[k], masterId)
            /\ n <= Len(order)
            /\ \A i \in 1..n : last.out[i] = order[i]
            /\ \A i \in 1..n : i < n => Passes(last.out[i])
            /\ ~last.ret =>
                  \/ m_MasterCredential = NoCred /\ n = 0
                  \/ n > 0 /\ ~Passes(last.out[n])

\* a valid master, a failing child, and children after it that are not asked
C2_Witness ==
    /\ last.op = "VerifyInternally"
    /\ ~last.ret
    /\ Len(last.out) >= 2
    /\ Len(last.out) < 1 + Cardinality(DOMAIN m_mapCredentials)

\* C3: every CredentialSet handed to the caller has its master credential,
\* and keeps it.
C3_MasterPresent == constructed => m_MasterCredential # NoCred

\* C4: an INDEX load that names a master or child ID absent from storage
\* produces no CredentialSet.
C4_IndexedNotFoundFails ==
    (/\ last.op = "LoadIndexed"
     /\ \/ last.in[1] \notin DOMAIN db
        \/ \E i \in DOMAIN last.in[2] : last.in[2][i] \notin DOMAIN db)
    => ~constructed

\* C5: a FULL load produces no CredentialSet when the top-level credential
\* is not a master, when a master is among the children or when a child is
\* malformed, and never puts a master into the active children.
C5_FullRejectsBadInput ==
    last.op = "LoadFull" =>
        /\ (\/ last.in[1].role # MASTERKEY
            \/ \E i \in DOMAIN last.in[2] :
                  \/ last.in[2][i].role = MASTERKEY
                  \/ ~last.in[2][i].wf)
           => ~constructed
        /\ \A k \in DOMAIN m_mapCredentials :
              m_mapCredentials[k].role # MASTERKEY

\* C6: the master ID the set reports is the ID of its master credential, and
\* every active or revoked child has that master ID as its master_id.
C6_ChildrenUnderMaster ==
    (constructed /\ m_MasterCredential # NoCred) =>
        /\ GetMasterCredID(m_MasterCredential) = m_MasterCredential.id
        /\ \A k \in DOMAIN m_mapCredentials :
              m_mapCredentials[k].masterid
                  = GetMasterCredID(m_MasterCredential)
        /\ \A k \in DOMAIN m_mapRevokedCredentials :
              m_mapRevokedCredentials[k].masterid
                  = GetMasterCredID(m_MasterCredential)

\* C7: the keys of the active children and the keys of the revoked children
\* have no ID in common.
C7_ActiveRevokedDisjoint ==
    DOMAIN m_mapCredentials \cap DOMAIN m_mapRevokedCredentials = {}

\* a revocation has just taken children out of a set that keeps others
C7_Witness ==
    /\ last.op \in RevokeOps
    /\ Len(last.out) > Len(last.in[1])
    /\ DOMAIN m_mapCredentials # {}

\* C8: AddContactCredential and AddVerificationCredential return false and
\* leave the active children as they were when the set has no master or the
\* factory produces no credential; a false return inserts nothing.
C8_AddFailsCleanly ==
    [][last'.op \in AddOps =>
          /\ (m_MasterCredential = NoCred \/ ~last'.in[2])
                => last'.ret = FALSE
          /\ last'.ret = FALSE => m_mapCredentials' = m_mapCredentials]_vars

\* an add on a set without master that holds children
C8_Witness ==
    /\ last.op \in AddOps
    /\ last.in[2]
    /\ m_MasterCredential = NoCred
    /\ DOMAIN m_mapCredentials # {}
    /\ last.ret = FALSE

\* C9: a revocation by role appends exactly the IDs of the k children of
\* that role, lowers the child count by k, removes every child of the role
\* and no other child.
RevokedRole(op) ==
    IF op = "RevokeContactCredentials" THEN CONTACT ELSE VERIFY

C9_RevokeRemovesExactlyRole ==
    [][last'.op \in RevokeOps =>
          LET role == RevokedRole(last'.op)
              ofRole == {k \in DOMAIN m_mapCredentials :
                            m_mapCredentials[k].role = role}
              k == Cardinality(ofRole)
          IN  /\ Len(last'.out) = Len(last'.in[1]) + k
              /\ {last'.out[i] :
                     i \in (Len(last'.in[1]) + 1)..Len(last'.out)}
                    = {m_mapCredentials[j].id : j \in ofRole}
              /\ GetChildCredentialCount(m_mapCredentials')
                    = GetChildCredentialCount(m_mapCredentials) - k
              /\ DOMAIN m_mapCredentials'
                    = DOMAIN m_mapCredentials \ ofRole
              /\ \A j \in DOMAIN m_mapCredentials' :
                    m_mapCredentials'[j] = m_mapCredentials[j]]_vars

\* C10: every ID among the active children before a revocation is among the
\* active or the revoked children after it.
C10_RevokeKeepsEntries ==
    [][last'.op \in RevokeOps =>
          DOMAIN m_mapCredentials \subseteq
              DOMAIN m_mapCredentials' \cup
              DOMAIN m_mapRevokedCredentials']_vars

\* C11: a signature made by a child credential (it names the credential
\* whose key made it) that Verify accepts is still accepted, for the same
\* payload and key usage, after RevokeContactCredentials or
\* RevokeVerificationCredentials; step by step this covers every sequence
\* of revocations.
C11_VerifySurvivesRevocation ==
    [][last'.op \in RevokeOps =>
          \A plaintext \in Payloads, sig \in Signatures, key \in KeyRoles :
              (/\ sig.credentialid = sig.signer
               /\ Verify(m_MasterCredential, m_mapCredentials, plaintext,
                         sig, key))
              => Verify(m_MasterCredential', m_mapCredentials', plaintext,
                        sig, key)]_vars

\* a revocation has removed children from a set on which a child's
\* signature verifies
C11_Witness ==
    /\ last.op \in RevokeOps
    /\ Len(last.out) > Len(last.in[1])
    /\ \E plaintext \in Payloads, sig \in Signatures :
          /\ sig.credentialid = sig.signer
          /\ Verify(m_MasterCredential, m_mapCredentials, plaintext, sig,
                    KEYROLE_SIGN)

SignOp == "Sign"
DefaultRoles ==
    SignatureRoles \ {SIGROLE_PUBCREDENTIAL, SIGROLE_NYMIDSOURCE,
                      SIGROLE_PRIVCREDENTIAL}

\* C13: Sign with SIGROLE_PUBCREDENTIAL asks the master credential and
\* returns its result; with SIGROLE_NYMIDSOURCE or SIGROLE_PRIVCREDENTIAL it
\* returns false and asks no credential, whatever the children.
C13_SignDispatch ==
    last.op = SignOp =>
        /\ last.in[2] = SIGROLE_PUBCREDENTIAL =>
              /\ ~last.out[3]
              /\ last.out[2] = ByMaster
              /\ m_MasterCredential # NoCred
              /\ LET r == CredentialSign(m_MasterCredential, last.in[1],
                                         last.in[2], last.in[3], last.in[4])
                 IN  last.ret = r.ret /\ last.out[1] = r.sig
        /\ last.in[2] \in {SIGROLE_NYMIDSOURCE, SIGROLE_PRIVCREDENTIAL} =>
              /\ last.ret = FALSE
              /\ last.out[1] = NoSig
              /\ last.out[2] = ByNobody

\* C14: Sign with any other role asks the first active child, in map order,
\* whose canSign() is true and returns that child's result; it returns false
\* when no child can sign; the credential asked is never a master
\* credential.
C14_SignByFirstChildNeverMaster ==
    (last.op = SignOp /\ last.in[2] \in DefaultRoles) =>
        LET signers == {k \in DOMAIN m_mapCredentials :
                           canSign(m_mapCredentials[k])}
        IN  /\ ~last.out[3]
            /\ signers = {} =>
                  /\ last.ret = FALSE
                  /\ last.out[2] = ByNobody
            /\ signers # {} =>
                  /\ last.out[2] \in signers
                  /\ \A k \in signers : last.out[2] <= k
                  /\ LET r == CredentialSign(
                                  m_mapCredentials[last.out[2]], last.in[1],
                                  last.in[2], last.in[3], last.in[4])
                     IN  last.ret = r.ret /\ last.out[1] = r.sig
                  /\ m_mapCredentials[last.out[2]].role # MASTERKEY
                  /\ m_mapCredentials[last.out[2]].id
                        # GetMasterCredID(m_MasterCredential)

\* C15: a freshly created set has exactly one child, which is the one Sign
\* with the default role asks, and Sign succeeds when that child's key
\* operation does; whenever Sign with a default role has succeeded, Verify
\* of the payload and the signature made, with the same key usage, returns
\* true on the set as it is.
C15_SignThenVerify ==
    /\ last.op = "Create" =>
          /\ GetChildCredentialCount(m_mapCredentials) = 1
          /\ \A plaintext \in Plaintexts, key \in KeyRoles :
                \A r \in Sign(m_MasterCredential, m_mapCredentials,
                              plaintext, SIGROLE_ERROR, key, TRUE) :
                    /\ r.ret
                    /\ r.by \in DOMAIN m_mapCredentials
                    /\ Verify(m_MasterCredential, m_mapCredentials,
                              plaintext, r.sig, key)
    /\ (last.op = SignOp /\ last.in[2] \in DefaultRoles /\ last.ret) =>
          Verify(m_MasterCredential, m_mapCredentials, last.in[1],
                 last.out[1], last.in[3])

ReEncryptOp == "ReEncryptPrivateCredentials"
LogSet(log) == {log[i] : i \in DOMAIN log}

\* C16: when ReEncryptPrivateCredentials returns true, the master and every
\* active child that holds private key material has been re-encrypted and,
\* when importing, re-signed.
C16_TrueMeansAllReEncrypted ==
    (last.op = ReEncryptOp /\ last.ret) =>
        LET done == LogSet(last.out)
            bImporting == last.in[1]
        IN  /\ <<"enc", 0, TRUE>> \in done
            /\ bImporting => <<"sign", 0, TRUE>> \in done
            /\ \A k \in DOMAIN m_mapCredentials :
                  m_mapCredentials[k].priv =>
                      /\ <<"enc", k, TRUE>> \in done
                      /\ bImporting => <<"sign", k, TRUE>> \in done

\* C17: on a set whose master holds no private material,
\* ReEncryptPrivateCredentials returns false, calls into no credential and
\* leaves the storage as it was.
C17_NoPrivateMasterFails ==
    [][(last'.op = ReEncryptOp /\ ~m_MasterCredential.priv) =>
          /\ last'.ret = FALSE
          /\ last'.out = << >>
          /\ db' = db]_vars

\* a master without private material over a child key credential that has it
C17_Witness ==
    /\ last.op = ReEncryptOp
    /\ m_MasterCredential # NoCred
    /\ ~m_MasterCredential.priv
    /\ \E k \in DOMAIN m_mapCredentials :
          m_mapCredentials[k].role = CHILDKEY /\ m_mapCredentials[k].priv
    /\ last.ret = FALSE

\* C18: when re-encrypting the master fails, or re-signing it fails on
\* import, ReEncryptPrivateCredentials returns false, the master is not
\* saved and no child is re-encrypted, re-signed or saved.
C18_MasterFailureAborts ==
    [][(/\ last'.op = ReEncryptOp
        /\ \/ <<"enc", 0, FALSE>> \in LogSet(last'.out)
           \/ <<"sign", 0, FALSE>> \in LogSet(last'.out)) =>
          /\ last'.ret = FALSE
          /\ \A i \in DOMAIN last'.out :
                last'.out[i][1] # "save" /\ last'.out[i][2] = 0
          /\ db' = db]_vars

\* re-signing the master failed on import over a set with child keys
C18_Witness ==
    /\ last.op = ReEncryptOp
    /\ last.in[1]
    /\ <<"sign", 0, FALSE>> \in LogSet(last.out)
    /\ \E k \in DOMAIN m_mapCredentials :
          m_mapCredentials[k].role = CHILDKEY
    /\ last.ret = FALSE

\* the storage after saving the master and then the child key credentials
\* stored under the given keys
RECURSIVE SavedUpTo(_, _, _)
SavedUpTo(store, map, keys) ==
    IF keys = << >> THEN store
    ELSE SavedUpTo(DBSave(store, map[Head(keys)]), map, Tail(keys))

\* C19: when re-encrypting or (on import) re-signing a child fails,
\* ReEncryptPrivateCredentials returns false at once: no child key after
\* the failing one is touched, the child keys before it have been
\* re-encrypted, and what was saved is the master and, on import, the
\* child keys before the failing one.
C19_ChildFailureAborts ==
    [][(/\ last'.op = ReEncryptOp
        /\ \E k \in DOMAIN m_mapCredentials :
              \/ <<"enc", k, FALSE>> \in LogSet(last'.out)
              \/ <<"sign", k, FALSE>> \in LogSet(last'.out)) =>
          LET log == last'.out
              bImporting == last'.in[1]
              failed == log[Len(log)]
              at == failed[2]
              childKeys == {k \in DOMAIN m_mapCredentials :
                               m_mapCredentials[k].role = CHILDKEY}
              before == {k \in childKeys : k < at}
              after == {k \in childKeys : k > at}
          IN  /\ last'.ret = FALSE
              /\ failed[1] \in {"enc", "sign"} /\ failed[3] = FALSE
              /\ \A i \in DOMAIN log : log[i][2] \notin after
              /\ \A i \in DOMAIN log : log[i][2] = at => log[i][1] # "save"
              /\ \A k \in before :
                    /\ <<"enc", k, TRUE>> \in LogSet(log)
                    /\ bImporting => <<"sign", k, TRUE>> \in LogSet(log)
              /\ {log[i][2] : i \in {j \in DOMAIN log : log[j][1] = "save"}}
                    = {0} \cup (IF bImporting THEN before ELSE {})
              /\ db' = SavedUpTo(DBSave(db, m_MasterCredential),
                                 m_mapCredentials,
                                 IF bImporting THEN KeySeq(before)
                                 ELSE << >>)
              /\ m_mapCredentials' = m_mapCredentials]_vars

\* a child key fails on import between an earlier and a later child key
C19_Witness ==
    /\ last.op = ReEncryptOp
    /\ last.in[1]
    /\ last.ret = FALSE
    /\ \E k \in DOMAIN m_mapCredentials :
          /\ <<"sign", k, FALSE>> \in LogSet(last.out)
          /\ \E j \in DOMAIN m_mapCredentials :
                j < k /\ <<"save", j, TRUE>> \in LogSet(last.out)
          /\ \E j \in DOMAIN m_mapCredentials :
                j > k /\ m_mapCredentials[j].role = CHILDKEY

\* C20: when LoadMasterFromString or LoadChildKeyCredentialFromString has
\* returned, with true or with false, the set holds no import password.
C20_ImportPasswordCleared ==
    last.op \in {"LoadMasterFromString", "LoadChildKeyCredentialFromString"}
        => m_pImportPassword = "null"

\* C21: WriteCredentials saves the master first and then the children in
\* map order, stops at the first Save that fails and returns true iff every
\* Save succeeded: the saves made are a prefix of that order, all but
\* possibly the last successful, and a failed one is the last.
C21_WriteStopsAtFirstFailure ==
    last.op = "WriteCredentials" =>
        LET log == last.out[1]
            order == <<0>> \o KeySeq(DOMAIN m_mapCredentials)
            n == Len(log)
        IN  /\ ~last.out[2]
            /\ 1 <= n /\ n <= Len(order)
            /\ \A i \in 1..n :
                  /\ log[i][1] = "save"
                  /\ log[i][2] = order[i]
                  /\ i < n => log[i][3] = TRUE
            /\ last.ret <=> (n = Len(order) /\ log[n][3] = TRUE)
            /\ ~last.ret => log[n][3] = FALSE

SerializeOp == "Serialize"

\* C22: loading what Serialize emits in full mode gives a set with the same
\* master ID, the same active child IDs, the same revoked child IDs and the
\* same VerifyInternally result.
C22_FullRoundTrip ==
    (last.op = SerializeOp /\ last.in[1] = FULL_CREDS) =>
        LET loaded == LoadedSet(db, last.out)
        IN  /\ ~last.out.crashed
            /\ GetMasterCredID(loaded.master)
                  = GetMasterCredID(m_MasterCredential)
            /\ DOMAIN loaded.map = DOMAIN m_mapCredentials
            /\ DOMAIN loaded.revoked = DOMAIN m_mapRevokedCredentials
            /\ VerifyInternally(loaded.master, loaded.map).ret
                  = VerifyInternally(m_MasterCredential,
                                     m_mapCredentials).ret

\* C23: in index mode Serialize emits the nym ID, the master ID, the keys of
\* the active and of the revoked children and no credential; in full mode
\* it embeds the master credential and one serialized credential for every
\* active and every revoked child.
C23_SerializeContents ==
    last.op = SerializeOp =>
        LET out == last.out
            active == Entries(m_mapCredentials)
            revoked == Entries(m_mapRevokedCredentials)
        IN  /\ ~out.crashed
            /\ out.nymid = m_strNymID
            /\ out.masterid = GetMasterCredID(m_MasterCredential)
            /\ last.in[1] = ONLY_IDS =>
                  /\ out.mode = CREDSETMODE_INDEX
                  /\ Len(out.activechildids) = Len(active)
                  /\ \A i \in DOMAIN active :
                        out.activechildids[i] = active[i].first
                  /\ Len(out.revokedchildids) = Len(revoked)
                  /\ \A i \in DOMAIN revoked :
                        out.revokedchildids[i] = revoked[i].first
                  /\ out.mastercredential = NoCred
                  /\ out.activechildren = << >>
                  /\ out.revokedchildren = << >>
            /\ last.in[1] = FULL_CREDS =>
                  /\ out.mode = CREDSETMODE_FULL
                  /\ m_MasterCredential # NoCred
                  /\ out.mastercredential
                        = asSerializedPublic(m_MasterCredential)
                  /\ Len(out.activechildren) = Len(active)
                  /\ \A i \in DOMAIN active :
                        out.activechildren[i]
                            = asSerializedPublic(active[i].second)
                  /\ Len(out.revokedchildren) = Len(revoked)
                  /\ \A i \in DOMAIN revoked :
                        out.revokedchildren[i]
                            = asSerializedPublic(revoked[i].second)

\* the sets that differ from the given one in private key material only
PrivVariantsOf(cred) ==
    IF cred = NoCred THEN {NoCred}
    ELSE {[cred EXCEPT !.priv = b] : b \in BOOLEAN}
PrivVariantsOfMap(map) ==
    {[k \in DOMAIN map |-> [map[k] EXCEPT !.priv = f[k]]] :
        f \in [DOMAIN map -> BOOLEAN]}

\* C24: what Serialize emits, in either mode, holds no private key
\* material: every set that differs from this one only in the private key
\* material of its credentials serializes to the same form.
C24_SerializeOmitsPrivate ==
    last.op = SerializeOp =>
        /\ ~last.out.mastercredential.priv
        /\ \A i \in DOMAIN last.out.activechildren :
              ~last.out.activechildren[i].priv
        /\ \A i \in DOMAIN last.out.revokedchildren :
              ~last.out.revokedchildren[i].priv
        /\ \A master \in PrivVariantsOf(m_MasterCredential),
              map \in PrivVariantsOfMap(m_mapCredentials),
              revoked \in PrivVariantsOfMap(m_mapRevokedCredentials) :
              last.out \in Serialize(m_strNymID, master, map, revoked,
                                     last.in[1])

\* a full serialization of a set whose master and a child hold private keys
C24_Witness ==
    /\ last.op = SerializeOp
    /\ last.in[1] = FULL_CREDS
    /\ m_MasterCredential.priv
    /\ \E k \in DOMAIN m_mapCredentials : m_mapCredentials[k].priv
    /\ Len(last.out.activechildren) >= 2

KeypairOp == "GetKeypair"
KeyBearing(cred) == cred.role \in {MASTERKEY, CHILDKEY}

\* C25: key selection never returns the key pair of a child whose ID is on
\* the caller's list; it returns the key pair of a key-bearing child
\* whenever a key-bearing active child is not on the list, and the master's
\* key pair of the same usage exactly when no active child qualifies.
C25_KeySelection ==
    last.op = KeypairOp =>
        LET excluded == last.in[2]
            out == last.out
            qualifying == {k \in DOMAIN m_mapCredentials :
                              /\ KeyBearing(m_mapCredentials[k])
                              /\ m_mapCredentials[k].id \notin excluded}
        IN  /\ ~out.crashed
            /\ out.usage = last.in[1]
            /\ out.by # ByNobody
            /\ out.by # ByMaster =>
                  /\ out.by \in DOMAIN m_mapCredentials
                  /\ m_mapCredentials[out.by].id \notin excluded
                  /\ out.owner = m_mapCredentials[out.by].id
            /\ qualifying # {} => out.by \in qualifying
            /\ out.by = ByMaster <=> qualifying = {}
            /\ out.by = ByMaster =>
                  /\ m_MasterCredential # NoCred
                  /\ out.owner = m_MasterCredential.id

\* the child key credentials a selection may return: those stored under a
\* key that is not on the list
Selectable(map, plistRevokedIDs) ==
    {k \in DOMAIN map :
        map[k].role = CHILDKEY /\ k \notin plistRevokedIDs}

\* C26 as stated: the key pair selected belongs to the selectable child
\* inserted earliest, so inserting one more child into a set that has a
\* selectable child does not change the selection.
C26_EarliestInsertedWins ==
    [][(/\ DOMAIN m_mapCredentials \subseteq DOMAIN m_mapCredentials'
        /\ DOMAIN m_mapCredentials' # DOMAIN m_mapCredentials
        /\ \A k \in DOMAIN m_mapCredentials :
              m_mapCredentials'[k] = m_mapCredentials[k]
        /\ m_MasterCredential' = m_MasterCredential) =>
          \A usage \in KeyUsages, plistRevokedIDs \in RevokedLists :
              Selectable(m_mapCredentials, plistRevokedIDs) # {} =>
                  {r.owner : r \in GetKeypair(m_MasterCredential',
                                   m_mapCredentials', usage, plistRevokedIDs)}
                  = {r.owner : r \in GetKeypair(m_MasterCredential,
                                     m_mapCredentials, usage,
                                     plistRevokedIDs)}]_vars

\* C26 amended: the children are visited in the order of their map keys;
\* when a child key credential is stored under a key that is not on the
\* list, the key pair returned is that of the one with the smallest key.
C26_SmallestKeyWins ==
    last.op = KeypairOp =>
        LET selectable == Selectable(m_mapCredentials, last.in[2])
        IN  selectable # {} =>
                /\ ~last.out.crashed
                /\ last.out.by \in selectable
                /\ \A k \in selectable : last.out.by <= k
                /\ last.out.owner = m_mapCredentials[last.out.by].id
                /\ last.out.usage = last.in[1]

\* two selectable child keys, the one with the smaller key returned
C26_Witness ==
    /\ last.op = KeypairOp
    /\ Cardinality(Selectable(m_mapCredentials, last.in[2])) >= 2
    /\ last.out.by \in DOMAIN m_mapCredentials
    /\ \E k \in Selectable(m_mapCredentials, last.in[2]) : k > last.out.by

\* the keys of the active children that have the given ID
KeysOfID(map, id) == {k \in DOMAIN map : map[k].id = id}

\* C27: GetChildCredential returns no credential when the ID is on the
\* caller's list or no active child has that ID, and otherwise the active
\* child stored under the ID; without a list every ID of an active child
\* gives that child.
C27_GetChildCredential ==
    last.op = "GetChildCredential" =>
        LET strSubID == last.in[1]
            plistRevokedIDs == last.in[2]
        IN  /\ IF \/ strSubID \in plistRevokedIDs
                  \/ KeysOfID(m_mapCredentials, strSubID) = {}
               THEN last.out = NoCred
               ELSE /\ strSubID \in DOMAIN m_mapCredentials
                    /\ last.out = m_mapCredentials[strSubID]
                    /\ last.out.id = strSubID
            /\ \A k \in DOMAIN m_mapCredentials :
                  GetChildCredential(m_mapCredentials,
                                     m_mapCredentials[k].id, NullList)
                      = m_mapCredentials[k]

DataOps == {"GetContactData", "GetVerificationSet"}
DataRole(op) == IF op = "GetContactData" THEN CONTACT ELSE VERIFY

\* C28: GetContactData and GetVerificationSet return the result of the
\* getter of the last child of the role in map order, with its data when
\* that getter succeeded, also when an earlier child of the role succeeded;
\* with no child of the role they return false and write nothing.
C28_LastMatchWins ==
    last.op \in DataOps =>
        LET matching == KeysOfRole(m_mapCredentials, DataRole(last.op))
            lastKey == CHOOSE k \in matching : \A j \in matching : j <= k
        IN  IF matching = {}
            THEN last.ret = FALSE /\ last.out = NoData
            ELSE /\ last.ret <=> lastKey \notin last.in[1]
                 /\ last.ret => last.out = m_mapCredentials[lastKey].data

\* the last of two children of the role fails after the first succeeded
C28_Witness ==
    /\ last.op \in DataOps
    /\ Cardinality(KeysOfRole(m_mapCredentials, DataRole(last.op))) >= 2
    /\ \E k \in KeysOfRole(m_mapCredentials, DataRole(last.op)) :
          k \notin last.in[1]
    /\ last.ret = FALSE
    /\ last.out # NoData

\* C29: m_mapRevokedCredentials is empty in every reachable state, the
\* revoked lists that Serialize emits are empty, and after a revocation no
\* credential with an ID it reported is left in the set.
C29_RevokedAlwaysEmpty ==
    /\ m_mapRevokedCredentials = EmptyMap
    /\ last.op = SerializeOp =>
          /\ last.out.revokedchildids = << >>
          /\ last.out.revokedchildren = << >>
    /\ last.op \in RevokeOps =>
          \A i \in (Len(last.in[1]) + 1)..Len(last.out) :
              /\ KeysOfID(m_mapCredentials, last.out[i]) = {}
              /\ KeysOfID(m_mapRevokedCredentials, last.out[i]) = {}

\* C30: every active child is stored under its own ID, so that every ID a
\* revocation reports is the key of an entry it removed.
C30_StoredUnderOwnID ==
    \A k \in DOMAIN m_mapCredentials : m_mapCredentials[k].id = k

ChildLoadOps ==
    {"LoadChildKeyCredentialFromString", "LoadChildKeyCredential",
     "LoadChildKeyCredentialByID"}

\* C31: a load of a single child that returns false leaves the active
\* children as they were: a child stored under the same ID before the call
\* is still there and the child count is the same.
C31_FailedLoadKeepsChildren ==
    [][(last'.op \in ChildLoadOps /\ ~last'.ret) =>
          /\ m_mapCredentials' = m_mapCredentials
          /\ GetChildCredentialCount(m_mapCredentials')
                = GetChildCredentialCount(m_mapCredentials)]_vars

\* C32: a true result of ReEncryptPrivateCredentials means that the save of
\* the master and, when importing, of every re-signed child succeeded: no
\* failed save is among the calls of a run that returned true.
C32_TrueMeansAllSaved ==
    (last.op = ReEncryptOp /\ last.ret) =>
        /\ \E i \in DOMAIN last.out : last.out[i] = <<"save", 0, TRUE>>
        /\ \A i \in DOMAIN last.out :
              last.out[i][1] = "save" => last.out[i][3] = TRUE

QueryOps ==
    {"VerifyInternally", "Verify", SignOp, SerializeOp, "WriteCredentials",
     "GetChildCredential", KeypairOp, "GetContactData",
     "GetVerificationSet"}

\* C33: the query and delegation operations leave the master credential,
\* the active and the revoked children, the nym ID and the import password
\* as they were, whether they succeed or fail.
C33_QueriesKeepTheSet ==
    [][last'.op \in QueryOps =>
          UNCHANGED <<m_MasterCredential, m_mapCredentials,
                      m_mapRevokedCredentials, m_strNymID,
                      m_pImportPassword>>]_vars

\* a query has failed on a set that has children and no master
C33_Witness ==
    /\ last.op \in QueryOps
    /\ ~last.ret
    /\ m_MasterCredential = NoCred
    /\ DOMAIN m_mapCredentials # {}
    /\ m_strNymID = NymId

GetterOf(op) ==
    IF op = "AddContactCredential" THEN "GetContactData"
    ELSE "GetVerificationSet"

\* C34: after an Add operation returned true a child of the role with the
\* new credential's ID and data is among the active children, and the getter
\* of the role called next, every child's getter succeeding, returns true
\* with the data just added.
C34_AddThenGet ==
    [][/\ (last'.op \in AddOps /\ last'.ret) =>
             \E k \in DOMAIN m_mapCredentials' :
                 /\ m_mapCredentials'[k].id = k
                 /\ m_mapCredentials'[k].role = DataRole(GetterOf(last'.op))
                 /\ m_mapCredentials'[k].data = last'.in[1]
       /\ (/\ last.op \in AddOps
           /\ last.ret
           /\ last'.op = GetterOf(last.op)
           /\ last'.in[1] = {}) =>
             /\ last'.ret
             /\ last'.out = last.in[1]]_vars
====
